---- MODULE Spec2Model ----
(***************************************************************************)
(* A model of services/code_executor.py: the CodeExecutor that runs user   *)
(* code in subprocesses.  One CodeExecutor is shared by every session of   *)
(* the application (app.py caches it with st.cache_resource), so several   *)
(* threads call execute_code and stop_execution on the same object: the    *)
(* Run button calls execute_code, the Stop button calls stop_execution.    *)
(*                                                                         *)
(* Strings are abstracted to the facts the code reads from them: a result  *)
(* is the name of the message the code builds, and the one test the code   *)
(* makes on a result, '"error" in compile_result.lower()', is computed     *)
(* from the text of that message (ContainsError).  Time is abstracted: a   *)
(* wait may time out at any moment.                                        *)
(***************************************************************************)
EXTENDS Integers, Sequences, FiniteSets, TLC

\* Bounds of the model.
MaxSpawn == 2       \* stage processes spawned in one behaviour
MaxDesc == 1        \* descendants one stage process may fork

Execs == {"e1", "e2"}          \* threads that call execute_code (Run button)
Cancellers == {"c1"}           \* threads that call stop_execution (Stop button)
Threads == Execs \cup Cancellers
Queriers == {"q1"}             \* threads that call get_execution_status
\* The threads that make calls in one behaviour: two Run callers, a Run
\* caller and a Stop caller, or a Run caller and a caller of the status query.
Configs == {{"e1", "e2"}, {"e1", "c1"}, {"e1", "q1"}}
Languages == {"python", "javascript", "java", "cpp", "other"}
Pids == 1..MaxSpawn
Descs == 1..MaxDesc
Platforms == {"posix", "nt"}
None == 0                      \* Python's None, for a process handle
Free == "free"                 \* the lock is held by nobody

(***************************************************************************)
(* utils/security.py: SecurityManager                                      *)
(*                                                                         *)
(* A text is a sequence of tokens (words, punctuation, white space; "\n"   *)
(* ends a line), followed by `fill` more characters that match no rule,    *)
(* each `width` bytes long in UTF-8.  A regular                            *)
(* expression is a sequence of atoms matched token by token: a word of a   *)
(* pattern matches a token that is that word.                              *)
(***************************************************************************)

\* Names in one import statement.
MaxNames == 2
\* len(code) > 10000
MaxSourceLen == 10000
\* len(output) > 5000
MaxOutputLen == 5000

WS == {" ", "\n"}
NonWords == WS \cup {"(", ")", "[", "]", "{", "}", "<", ">", "<<", "::", ".",
                     ",", ";", "=", "+", "*", "/", "#include",
                     "\"Hello, World!\""}
IsWord(tok) == tok \notin NonWords

\* The lower-case form of a token, for the tokens of the model that have
\* upper-case letters.
LowerIdentity(tok) == tok

\* re.IGNORECASE: a token is compared in lower case.
Lower(tok) ==
    CASE tok = "EVAL" -> "eval"
      [] tok = "Function" -> "function"
      [] tok = "XMLHttpRequest" -> "xmlhttprequest"
      [] tok = "innerHTML" -> "innerhtml"
      [] tok = "Runtime" -> "runtime"
      [] tok = "getRuntime" -> "getruntime"
      [] tok = "ProcessBuilder" -> "processbuilder"
      [] tok = "System" -> "system"
      [] tok = "String" -> "string"
      [] tok = "Main" -> "main"
      [] tok = "ASM" -> "asm"
      [] OTHER -> tok

\* Atoms of a pattern: one token out of a set, \w+, \s*, \s+.
Lit(w) == [k |-> "lit", s |-> {w}]
OneOf(ws) == [k |-> "lit", s |-> ws]
Wd == [k |-> "word", s |-> {}]
Ws0 == [k |-> "ws*", s |-> {}]
Ws1 == [k |-> "ws+", s |-> {}]

\* The atoms pat[k..] match text from position i on; fold is re.IGNORECASE.
RECURSIVE MatchAt(_, _, _, _, _)
MatchAt(pat, k, text, i, fold) ==
    IF k > Len(pat) THEN TRUE
    ELSE LET a == pat[k]
             tok == IF fold THEN Lower(text[i]) ELSE text[i]
         IN  CASE a.k = "lit" ->
                    /\ i <= Len(text)
                    /\ tok \in a.s
                    /\ MatchAt(pat, k + 1, text, i + 1, fold)
               [] a.k = "word" ->
                    /\ i <= Len(text)
                    /\ IsWord(text[i])
                    /\ MatchAt(pat, k + 1, text, i + 1, fold)
               [] a.k = "ws*" ->
                    \/ MatchAt(pat, k + 1, text, i, fold)
                    \/ /\ i <= Len(text)
                       /\ text[i] \in WS
                       /\ MatchAt(pat, k, text, i + 1, fold)
               [] a.k = "ws+" ->
                    /\ i <= Len(text)
                    /\ text[i] \in WS
                    /\ \/ MatchAt(pat, k + 1, text, i + 1, fold)
                       \/ MatchAt(pat, k, text, i + 1, fold)

\* re.search(pattern, text)
Search(pat, text, fold) ==
    \E i \in 1..(Len(text) + 1) : MatchAt(pat, 1, text, i, fold)

\* word\s*\(   word\.   import\s+word   from\s+word\s+import
CallPat(w) == <<Lit(w), Ws0, Lit("(")>>
DotPat(w) == <<Lit(w), Lit(".")>>
ImportPat(w) == <<Lit("import"), Ws1, Lit(w)>>
FromPat(w) == <<Lit("from"), Ws1, Lit(w), Ws1, Lit("import")>>
Path(ws) == [i \in 1..(2 * Len(ws) - 1) |->
               IF i % 2 = 1 THEN Lit(ws[(i + 1) \div 2]) ELSE Lit(".")]

\* self.dangerous_patterns, in lower case (they are searched with
\* re.IGNORECASE).
dangerous_patterns(lang) ==
    CASE lang = "python" ->
           {CallPat(w) : w \in {"eval", "exec", "__import__", "getattr",
                               "setattr", "delattr", "globals", "locals",
                               "vars", "dir", "open", "file", "input",
                               "raw_input"}}
           \cup {DotPat(w) : w \in {"subprocess", "os", "sys"}}
           \cup {ImportPat(w) : w \in {"os", "sys", "subprocess"}}
           \cup {FromPat(w) : w \in {"os", "sys", "subprocess"}}
      [] lang = "javascript" ->
           {CallPat(w) : w \in {"eval", "function", "settimeout",
                               "setinterval", "fetch", "require"}}
           \cup {<<Lit("document"), Lit("."), Lit("write"), Ws0, Lit("(")>>,
                 <<Lit("innerhtml"), Ws0, Lit("=")>>,
                 <<Lit("outerhtml"), Ws0, Lit("=")>>,
                 DotPat("location"), DotPat("window"),
                 <<Lit("xmlhttprequest")>>}
      [] lang = "java" ->
           {<<Lit("runtime"), Lit("."), Lit("getruntime"), Ws0, Lit("("),
              Lit(")")>>,
            <<Lit("processbuilder")>>,
            <<Lit("system"), Lit("."), Lit("exit"), Ws0, Lit("(")>>,
            <<Lit("class"), Lit("."), Lit("forname"), Ws0, Lit("(")>>,
            <<Lit("method"), Lit("."), Lit("invoke"), Ws0, Lit("(")>>,
            Path(<<"java", "io", "file">>), Path(<<"java", "nio", "file">>),
            Path(<<"java", "lang", "reflect">>),
            Path(<<"java", "net", "url">>),
            Path(<<"java", "net", "socket">>)}
      [] lang = "cpp" ->
           {CallPat(w) : w \in {"system", "exec", "popen", "malloc", "free"}}
           \cup {<<Lit("#include"), Ws0, Lit("<"), Lit("cstdlib"), Lit(">")>>,
                 <<Lit("#include"), Ws0, Lit("<"), Lit("unistd"), Lit("."),
                   Lit("h"), Lit(">")>>,
                 <<Lit("#include"), Ws0, Lit("<"), Lit("sys"), Lit("/")>>,
                 <<Lit("delete"), Ws1>>,
                 <<Lit("new"), Ws1, Wd, Lit("[")>>}
      [] OTHER -> {}

\* self.allowed_imports
allowed_imports(lang) ==
    CASE lang = "python" ->
           {"math", "random", "datetime", "json", "urllib", "hashlib",
            "base64", "itertools", "functools", "collections", "typing",
            "dataclasses", "enum", "decimal", "fractions"}
      [] lang = "javascript" ->
           {"Math", "Date", "JSON", "Array", "Object", "String", "Number",
            "Boolean"}
      [] OTHER -> {}

dangerous_modules ==
    {"os", "sys", "subprocess", "importlib", "__builtin__", "ctypes",
     "marshal", "pickle", "shelve", "socket", "urllib2", "httplib", "ftplib",
     "telnetlib", "smtplib"}

dangerous_includes ==
    {<<Lit("cstdlib")>>, <<Lit("unistd"), Lit("."), Lit("h")>>,
     <<Lit("sys"), Lit("/")>>, <<Lit("windows"), Lit("."), Lit("h")>>,
     <<Lit("winbase"), Lit("."), Lit("h")>>}

\* for pattern in patterns: if re.search(pattern, code, re.IGNORECASE |
\* re.MULTILINE): return True
contains_dangerous_patterns(text, lang) ==
    \E pat \in dangerous_patterns(lang) : Search(pat, text, TRUE)

\* Positions in a text.
LineStarts(text) ==
    {i \in 1..Len(text) : i = 1 \/ text[i - 1] = "\n"}
RECURSIVE LineEnd(_, _)
LineEnd(text, i) ==
    IF i > Len(text) \/ text[i] = "\n" THEN i ELSE LineEnd(text, i + 1)
RECURSIVE SkipWS(_, _)
SkipWS(text, i) ==
    IF i <= Len(text) /\ text[i] \in WS THEN SkipWS(text, i + 1) ELSE i
\* The end of \w+(?:\.\w+)* that starts at the word text[i].
RECURSIVE DottedEnd(_, _)
DottedEnd(text, i) ==
    IF i + 2 <= Len(text) /\ text[i + 1] = "." /\ IsWord(text[i + 2])
    THEN DottedEnd(text, i + 2) ELSE i + 1
IsWS(text, i) == i <= Len(text) /\ text[i] \in WS
\* str.split('.')[0]
RECURSIVE UpToDot(_)
UpToDot(toks) ==
    IF toks = <<>> \/ Head(toks) = "." THEN <<>>
    ELSE <<Head(toks)>> \o UpToDot(Tail(toks))

NoMatch == [ok |-> FALSE, module |-> <<>>, items |-> <<>>]

\* One match of ^(?:from\s+(\w+(?:\.\w+)*)\s+)?import\s+(.+)$ at the line
\* start i, with its two groups.  (A match whose second group would be white
\* space only is left out: it names no module.)
ImportAt(text, i) ==
    LET Rest(j) == [ok |-> j < LineEnd(text, j), module |-> <<>>,
                    items |-> SubSeq(text, j, LineEnd(text, j) - 1)]
    IN  IF text[i] = "import" /\ IsWS(text, i + 1)
        THEN Rest(SkipWS(text, i + 1))
        ELSE IF text[i] = "from" /\ IsWS(text, i + 1)
        THEN LET j == SkipWS(text, i + 1)
             IN  IF j <= Len(text) /\ IsWord(text[j])
                 THEN LET k == DottedEnd(text, j)
                          m == SkipWS(text, k)
                      IN  IF /\ IsWS(text, k)
                             /\ m <= Len(text)
                             /\ text[m] = "import"
                             /\ IsWS(text, m + 1)
                          THEN [Rest(SkipWS(text, m + 1)) EXCEPT
                                  !.module = SubSeq(text, j, k - 1)]
                          ELSE NoMatch
                 ELSE NoMatch
        ELSE NoMatch

\* base_module = (module or items.split('.')[0]).split('.')[0], and the test
\* on it: a string of several tokens is no module name of any set.
ImportIsDangerous(mt) ==
    LET base == UpToDot(IF mt.module # <<>> THEN mt.module
                        ELSE UpToDot(mt.items))
    IN  /\ mt.ok
        /\ Len(base) = 1
        /\ base[1] \notin allowed_imports("python")
        /\ base[1] \notin {"builtins", "typing", "dataclasses", "enum"}
        /\ base[1] \in dangerous_modules

\* The name of the include at the token text[i] = "#include":
\* #include\s*[<"]([^>"]+)[>"]
RECURSIVE IncludeEnd(_, _)
IncludeEnd(text, i) ==
    IF i > Len(text) \/ text[i] \in {">", "\""} THEN i
    ELSE IncludeEnd(text, i + 1)
IncludeAt(text, i) ==
    LET j == SkipWS(text, i + 1)
        e == IncludeEnd(text, j + 1)
    IN  IF /\ j <= Len(text)
           /\ text[j] \in {"<", "\""}
           /\ e <= Len(text)
           /\ e > j + 1
        THEN SubSeq(text, j + 1, e - 1)
        ELSE <<>>

are_imports_safe(text, lang) ==
    CASE lang = "python" ->
           \A i \in LineStarts(text) : ~ImportIsDangerous(ImportAt(text, i))
      [] lang = "cpp" ->
           \A i \in 1..Len(text) :
              text[i] = "#include" =>
                 \A d \in dangerous_includes :
                    ~Search(d, IncludeAt(text, i), FALSE)
      [] OTHER -> TRUE

is_python_safe(text) ==
    /\ ~Search(<<Lit("."), OneOf({"__class__", "__dict__", "__globals__",
                                  "__subclasses__"})>>, text, FALSE)
    /\ \A w \in {"func_code", "gi_code", "cr_code"} :
          ~Search(<<Lit("."), Lit(w)>>, text, FALSE)
    /\ ~Search(<<OneOf({"compile", "eval", "exec", "globals", "locals",
                        "vars"}), Ws0, Lit("(")>>, text, FALSE)

is_javascript_safe(text) ==
    /\ ~Search(<<Lit("."), Lit("prototype"), Ws0, OneOf({"=", "["})>>,
               text, FALSE)
    /\ ~Search(<<Lit("."), Lit("constructor")>>, text, FALSE)

is_java_safe(text) ==
    /\ ~Search(<<Lit("."), Lit("getClass"), Ws0, Lit("("), Lit(")")>>,
               text, FALSE)
    /\ ~Search(<<Lit("native"), Ws1>>, text, FALSE)

is_cpp_safe(text) ==
    /\ ~Search(<<Lit("*"), Ws0, Lit("("), Ws0, Wd, Ws0, Lit("+")>>,
               text, FALSE)
    /\ ~Search(<<Lit("asm"), Ws0, Lit("(")>>, text, TRUE)

\* The characters of a token sequence.
RECURSIVE SumLen(_)
SumLen(toks) ==
    IF toks = <<>> THEN 0 ELSE Len(Head(toks)) + SumLen(Tail(toks))

\* A value that is no string: None as code, a list as lang.
Unhashable == "[]"

\* Some step of the check raises: re.search and len raise TypeError on a
\* code that is not a string, dict.get on a lang that is not hashable.
Raises(code, lang) == code.kind = "none" \/ lang = Unhashable

\* A handler that accepts.
ExceptAccepts == TRUE

\* except Exception: return False
ExceptReturn == FALSE

\* len(code)
CodeLen(code) == SumLen(code.toks) + code.fill

is_code_safe(code, lang) ==
    IF Raises(code, lang) THEN ExceptReturn
    ELSE IF contains_dangerous_patterns(code.toks, lang) THEN FALSE
    ELSE IF ~are_imports_safe(code.toks, lang) THEN FALSE
    ELSE IF CodeLen(code) > MaxSourceLen THEN FALSE
    ELSE CASE lang = "python" -> is_python_safe(code.toks)
           [] lang = "javascript" -> is_javascript_safe(code.toks)
           [] lang = "java" -> is_java_safe(code.toks)
           [] lang = "cpp" -> is_cpp_safe(code.toks)
           [] OTHER -> TRUE

\* len(code.encode()): the bytes of the text.
ByteSize(code) == SumLen(code.toks) + code.fill * code.width

\* The minimal hello-world programs.
Hello(lang) ==
    CASE lang = "python" ->
           <<"print", "(", "\"Hello, World!\"", ")">>
      [] lang = "javascript" ->
           <<"console", ".", "log", "(", "\"Hello, World!\"", ")", ";">>
      [] lang = "java" ->
           <<"public", " ", "class", " ", "Main", " ", "{", "\n",
             " ", "public", " ", "static", " ", "void", " ", "main", "(",
             "String", "[", "]", " ", "args", ")", " ", "{", "\n",
             " ", "System", ".", "out", ".", "println", "(",
             "\"Hello, World!\"", ")", ";", "\n", " ", "}", "\n", "}">>
      [] lang = "cpp" ->
           <<"#include", " ", "<", "iostream", ">", "\n",
             "int", " ", "main", "(", ")", " ", "{", "\n",
             " ", "std", "::", "cout", " ", "<<", " ", "\"Hello, World!\"",
             " ", "<<", " ", "std", "::", "endl", ";", "\n",
             " ", "return", " ", "0", ";", "\n", "}">>
      [] OTHER -> <<"puts", " ", "1">>

(***************************************************************************)
(* The java sources a request can bring                                    *)
(***************************************************************************)

\* re.search(r'public\s+class\s+(\w+)', code)
ClassPat == <<Lit("public"), Ws1, Lit("class"), Ws1, Wd>>

\* _extract_java_class_name(code) finds a name (the name itself plays no
\* part in what follows).
extract_java_class_name(text) == Search(ClassPat, text, FALSE)

\* The body of the hello-world class.
MainBody ==
    <<" ", "{", "\n", " ", "public", " ", "static", " ", "void", " ", "main",
      "(", "String", "[", "]", " ", "args", ")", " ", "{", " ", "}", "\n",
      "}">>

\* Java texts, each with the fact whether it declares a public class: the
\* hello-world program, a class that is not public, that class after a
\* comment line with the words 'public class Foo', and a public final class.
JavaTexts ==
    {[decl |-> TRUE, toks |-> Hello("java")],
     [decl |-> FALSE, toks |-> <<"class", " ", "Main">> \o MainBody],
     [decl |-> FALSE,
      toks |-> <<"/", "/", " ", "public", " ", "class", " ", "Foo", "\n",
                 "class", " ", "Main">> \o MainBody],
     [decl |-> TRUE,
      toks |-> <<"public", " ", "final", " ", "class", " ", "Main">>
               \o MainBody]}

\* Those of them that is_code_safe accepts: the others never reach a driver.
JavaSources ==
    {src \in JavaTexts :
        is_code_safe([kind |-> "str", toks |-> src.toks, fill |-> 0,
                      width |-> 1], "java")}

\* No source is kept for the other languages: their drivers do not read it.
NoSource == [decl |-> FALSE, toks |-> <<>>]
SourcesOf(l) == IF l = "java" THEN JavaSources ELSE {NoSource}

VARIABLES
    active,            \* the threads that make calls in this behaviour
    platform,          \* the operating system: "posix", or "nt", where the
                       \* resource module and preexec_fn do not exist
    execution_lock,    \* self.execution_lock: Free or the thread holding it
    current_process,   \* self.current_process: None or the pid of a Popen
    root,              \* root[p]: the stage process p itself
    desc,              \* desc[p][d]: descendant d of stage process p
    pc,                \* pc[t]: where thread t is in its call
    language,          \* language[t]: the language argument of t's call
    stage,             \* stage[t]: 1 or 2, the _run_with_limits call t is in
    proc,              \* proc[t]: the Popen whose communicate() t is inside
    compile_result,    \* compile_result[t]: local of _execute_java/_execute_cpp
    result,            \* result[t]: what t's last execute_code call returned
    timedout,          \* timedout[t]: a stage of t's request hit its timeout
    parent,            \* parent[t]: local of stop_execution
    children,          \* children[t]: local of stop_execution, still to kill
    temps,             \* temps[a]: temporary artifact a of the request that
                       \* holds (or held last) the lock
    probed,            \* that request called _check_command_available
    popens,            \* the subprocess.Popen calls that request has made
    source,            \* the code of a java request, until
                       \* _extract_java_class_name has read it
    waiting,           \* the threads that have called execute_code and do
                       \* not hold the lock yet, in the order of their calls
    timeout,           \* the timeout argument of the _run_with_limits call
                       \* in progress, in seconds; 0 outside such a call
    stopped,           \* a call of stop_execution by the Stop button has
                       \* returned during the call of execute_code that
                       \* holds the lock
    killed,            \* a stage process of the call of execute_code that
                       \* holds the lock has been killed by stop_execution
                       \* while it ran
    query,             \* the call of get_execution_status in progress: where
                       \* it is, the is_running it has computed, and the
                       \* handle it computed it from
    call,              \* a call of a function of utils/security.py or of the
                       \* result formatting, with its arguments
    ret                \* <<>> until that call has returned, then <<value>>

exec_vars == <<active, platform, execution_lock, current_process, root, desc, pc,
               language, stage, proc, compile_result, result, timedout,
               parent, children, temps, probed, popens, source,
               waiting, timeout, stopped, killed,
               query>>
vars == <<exec_vars, call, ret>>

\* A stage process: not spawned yet, running, or ended.  While its Popen is
\* in use its end is kept as the return code the Popen will show (0, not 0,
\* -9 for a kill); after that it is just "dead".
RootStates == {"none", "alive", "exit0", "exit1", "killed", "dead"}
\* A descendant slot: a running descendant that holds the write end of the
\* stage's stdout pipe (inherited through fork), a running descendant that
\* has closed or redirected it, or none (not started, or ended).
DescStates == {"alive", "detached", "gone"}
StageResults == {"ok_noout", "ok_clean", "ok_errword", "errors", "timeout",
                 "procerr", "nofile"}
Results == StageResults \cup {"none", "rejected", "unsupported", "notavail",
                              "noclass", "compile_error", "langerr",
                              "execerr", "raised"}
ExecPcs == {"idle", "acquire", "s_check", "s_lookup", "s_killchildren",
            "s_killparent", "s_clear", "check", "probe", "mktemp", "spawn",
            "communicate", "wait"}
CancelPcs == {"idle", "s_check", "s_lookup", "s_killchildren",
              "s_killparent", "s_clear"}

\* The temporary artifacts of a request, in the order they are made:
\* temp_file (python, javascript), temp_dir holding the .java file (java),
\* cpp_file and exe_file (cpp).
Artifacts == {"temp_file", "temp_dir", "cpp_file", "exe_file"}
ArtifactsOf(l) ==
    CASE l \in {"python", "javascript"} -> <<"temp_file">>
      [] l = "java" -> <<"temp_dir">>
      [] l = "cpp" -> <<"cpp_file", "exe_file">>
      [] OTHER -> <<>>
\* An artifact does not exist, exists, or exists after a deletion that failed.
ArtifactStates == {"none", "exists", "stuck"}
NoTemps == [a \in Artifacts |-> "none"]

\* The commands _check_command_available is asked about before a request of
\* language l makes anything: none for python.
ToolsOf(l) ==
    CASE l = "javascript" -> {"node"}
      [] l = "java" -> {"javac", "java"}
      [] l = "cpp" -> {"g++"}
      [] OTHER -> {}

\* The timeout the driver of language l gives to its s-th stage:
\* _run_with_limits(cmd, timeout=10), and timeout=30 for javac and g++.
RunTimeout == 10
CompileTimeout == 30
\* Drivers that give every stage the same timeout.
StageTimeoutSame(l, s) == RunTimeout
StageTimeout(l, s) ==
    IF l \in {"java", "cpp"} /\ s = 1 THEN CompileTimeout ELSE RunTimeout

StagesOf(l) ==
    CASE l \in {"python", "javascript"} -> 1
      [] l \in {"java", "cpp"} -> 2
      [] OTHER -> 0

NSpawned == Cardinality({p \in Pids : root[p] # "none"})

TreeAlive(p) == root[p] = "alive" \/ \E d \in Descs : desc[p][d] # "gone"

\* stdout=subprocess.PIPE: the pipe communicate() reads has a writer as long
\* as the stage process or a descendant that inherited it runs.
PipeOpen(p) == root[p] = "alive" \/ \E d \in Descs : desc[p][d] = "alive"

\* The process of the stage that request t is in: the one its Popen call,
\* the last one made, has started.
InStage(t) == pc[t] \in {"communicate", "wait"}
StageProcess(t) == IF pc[t] = "wait" THEN proc[t] ELSE NSpawned

RECURSIVE AliveDescs(_, _)
AliveDescs(p, d) ==
    IF d > MaxDesc THEN <<>>
    ELSE IF desc[p][d] # "gone" THEN <<d>> \o AliveDescs(p, d + 1)
    ELSE AliveDescs(p, d + 1)

\* No call of get_execution_status is in progress.
NoQuery == [pc |-> "idle", is_running |-> FALSE, seen |-> None]
QueryPcs == {"idle", "test", "poll", "cond", "pid"}

TypeOK ==
    /\ active \in Configs
    /\ platform \in Platforms
    /\ execution_lock \in Execs \cup {Free}
    /\ current_process \in Pids \cup {None}
    /\ root \in [Pids -> RootStates]
    /\ desc \in [Pids -> [Descs -> DescStates]]
    /\ pc \in [Threads -> ExecPcs]
    /\ \A c \in Cancellers : pc[c] \in CancelPcs
    /\ language \in [Execs -> Languages \cup {"none"}]
    /\ stage \in [Execs -> 1..2]
    /\ proc \in [Execs -> Pids \cup {None}]
    /\ compile_result \in [Execs -> StageResults \cup {"none"}]
    /\ result \in [Execs -> Results]
    /\ timedout \in [Execs -> BOOLEAN]
    /\ parent \in [Threads -> Pids \cup {None}]
    /\ children \in [Threads -> Seq(Descs)]
    /\ temps \in [Artifacts -> ArtifactStates]
    /\ probed \in BOOLEAN
    /\ popens \in 0..2
    /\ source \in JavaSources \cup {NoSource}
    /\ waiting \in UNION {[1..n -> Execs] : n \in 0..Cardinality(Execs)}
    /\ timeout \in {0, RunTimeout, CompileTimeout}
    /\ stopped \in BOOLEAN
    /\ killed \in BOOLEAN
    /\ query \in [pc : QueryPcs, is_running : BOOLEAN,
                  seen : Pids \cup {None}]

\* No function call is followed.
NoCall == [fn |-> "none"]

\* The CodeExecutor after __init__, with no call in progress.
ExecInit ==
    /\ active \in Configs
    /\ platform \in Platforms
    /\ execution_lock = Free
    /\ current_process = None
    /\ root = [p \in Pids |-> "none"]
    /\ desc = [p \in Pids |-> [d \in Descs |-> "gone"]]
    /\ pc = [t \in Threads |-> "idle"]
    /\ language = [t \in Execs |-> "none"]
    /\ stage = [t \in Execs |-> 1]
    /\ proc = [t \in Execs |-> None]
    /\ compile_result = [t \in Execs |-> "none"]
    /\ result = [t \in Execs |-> "none"]
    /\ timedout = [t \in Execs |-> FALSE]
    /\ parent = [t \in Threads |-> None]
    /\ children = [t \in Threads |-> <<>>]
    /\ temps = NoTemps
    /\ probed = FALSE
    /\ popens = 0
    /\ source = NoSource
    /\ waiting = <<>>
    /\ timeout = 0
    /\ stopped = FALSE
    /\ killed = FALSE
    /\ query = NoQuery

Init == ExecInit /\ call = NoCall /\ ret = <<>>

\* The return code of an ended process is kept while the handle refers to
\* its Popen (returncode is read through self.current_process only).
Norm(rt, cp) ==
    [p \in Pids |-> IF rt[p] \in {"exit0", "exit1", "killed"} /\ p # cp
                    THEN "dead" ELSE rt[p]]

\* Which running descendants hold the stdout pipe of stage process p is kept
\* while the pipe can still be read: while the handle refers to p's Popen or
\* a thread is inside its communicate().  After that they just run.
Quiet(ds, cp, pr) ==
    [p \in Pids |-> [d \in Descs |->
        IF ds[p][d] = "alive" /\ p # cp /\ \A t \in Execs : pr[t] # p
        THEN "detached" ELSE ds[p][d]]]

\* kill() of the process itself: SIGKILL if it still runs, nothing otherwise.
Kill(rt, p) == [rt EXCEPT ![p] = IF @ = "alive" THEN "killed" ELSE @]

(***************************************************************************)
(* Results and exceptions                                                  *)
(***************************************************************************)

\* '"error" in compile_result.lower()' on the strings _run_with_limits builds:
\*   ok_noout   "Execution completed (no output)"
\*   ok_clean   "Execution completed:\n" + output, output without "error"
\*   ok_errword "Execution completed:\n" + output, output containing "error"
\*   errors     "Execution completed with errors (exit code N):\n" + output
\*   timeout    "Execution timeout - process killed"
\*   procerr    "Process execution error: " + message
\*   nofile     "Process execution error: [Errno 2] No such file or
\*              directory: 'python3'"
ContainsError(res) == res \in {"ok_errword", "errors", "procerr", "nofile"}

\* Handlers that name OSError only: the AttributeError of a cleared handle
\* would pass through them.
CaughtByOSErrorOnly(level, exc) == exc \in {"OSError", "FileNotFoundError"}

\* The handlers are all 'except Exception', which catches the OSError of a
\* failed Popen or file operation (FileNotFoundError when the command does
\* not exist), the AttributeError of None.communicate and the ValueError of
\* a Popen argument.
CaughtBy(level, exc) ==
    exc \in {"OSError", "FileNotFoundError", "AttributeError", "ValueError"}

\* A lock taken by hand and not released on the early return of a rejection.
ReturnKeepsLockOnReject(t, r, cp) ==
    /\ pc' = [pc EXCEPT ![t] = "idle"]
    /\ result' = [result EXCEPT ![t] = r]
    /\ execution_lock' = IF r = "rejected" THEN t ELSE Free
    /\ stopped' = FALSE
    /\ killed' = FALSE
    /\ language' = [language EXCEPT ![t] = "none"]
    /\ stage' = [stage EXCEPT ![t] = 1]
    /\ compile_result' = [compile_result EXCEPT ![t] = "none"]
    /\ proc' = [proc EXCEPT ![t] = None]
    /\ current_process' = cp

\* execute_code returns r (or raises, r = "raised"): the with-statement
\* releases the lock on every way out.  cp is the handle the call leaves.
Return(t, r, cp) ==
    /\ pc' = [pc EXCEPT ![t] = "idle"]
    /\ result' = [result EXCEPT ![t] = r]
    /\ execution_lock' = Free
    /\ stopped' = FALSE
    /\ killed' = FALSE
    /\ language' = [language EXCEPT ![t] = "none"]
    /\ stage' = [stage EXCEPT ![t] = 1]
    /\ compile_result' = [compile_result EXCEPT ![t] = "none"]
    /\ proc' = [proc EXCEPT ![t] = None]
    /\ current_process' = cp

\* The cleanup after the last stage, as the artifacts it can leave.
\*   python, javascript: try: os.unlink(temp_file) except: pass
\*   java: shutil.rmtree(temp_dir, ignore_errors=True)
\*   cpp:  try: os.unlink(cpp_file.name); os.unlink(exe_file.name)
\*         except: pass      (a failed first unlink skips the second)
Cleanup(tm, l) ==
    IF l = "cpp"
    THEN {[tm EXCEPT !["cpp_file"] = "stuck"],
          [tm EXCEPT !["cpp_file"] = "none", !["exe_file"] = "stuck"],
          [tm EXCEPT !["cpp_file"] = "none", !["exe_file"] = "none"]}
    ELSE LET a == ArtifactsOf(l)[1]
         IN  {[tm EXCEPT ![a] = "stuck"], [tm EXCEPT ![a] = "none"]}

\* _run_with_limits has returned res, in a driver that starts a stage again
\* when it timed out.
StageEndRetry(t, res) ==
    IF res = "timeout"
    THEN /\ timeout' = 0
         /\ pc' = [pc EXCEPT ![t] = "spawn"]
         /\ proc' = [proc EXCEPT ![t] = None]
         /\ current_process' = None
         /\ UNCHANGED <<stopped, killed, result, execution_lock, language, stage,
                        compile_result, temps>>
    ELSE /\ timeout' = 0
         /\ Return(t, res, None)
         /\ temps' \in Cleanup(temps, language[t])

\* _run_with_limits has returned res, without a finally clause: the handle
\* is left as it is.
StageEndNoFinally(t, res) ==
    /\ timeout' = 0
    /\ IF stage[t] = 1 /\ StagesOf(language[t]) = 2 /\ ~ContainsError(res)
       THEN /\ pc' = [pc EXCEPT ![t] = "spawn"]
            /\ stage' = [stage EXCEPT ![t] = 2]
            /\ compile_result' = [compile_result EXCEPT ![t] = res]
            /\ proc' = [proc EXCEPT ![t] = None]
            /\ UNCHANGED <<stopped, killed, result, execution_lock, language, temps,
                           current_process>>
       ELSE /\ Return(t, res, current_process)
            /\ temps' \in Cleanup(temps, language[t])

\* _run_with_limits returns res; its finally clause has cleared the handle.
\* The compile stage of java/cpp is followed by the test on its result (the
\* return of a compilation error comes before the cleanup), the last stage
\* by the cleanup and the return of its result.
StageEnd(t, res) ==
    /\ timeout' = 0
    /\ IF stage[t] = 1 /\ StagesOf(language[t]) = 2
       THEN IF ContainsError(res)
            THEN /\ Return(t, "compile_error", None)
                 /\ UNCHANGED temps
            ELSE /\ pc' = [pc EXCEPT ![t] = "spawn"]
                 /\ stage' = [stage EXCEPT ![t] = 2]
                 /\ compile_result' = [compile_result EXCEPT ![t] = res]
                 /\ proc' = [proc EXCEPT ![t] = None]
                 /\ current_process' = None
                 /\ UNCHANGED <<stopped, killed, result, execution_lock, language, temps>>
       ELSE /\ Return(t, res, None)
            /\ temps' \in Cleanup(temps, language[t])

\* An exception exc raised at site "run" (inside _run_with_limits), "lang"
\* (inside _execute_<language>, outside _run_with_limits) or "top" (inside
\* execute_code, outside both) goes to the innermost handler that catches it.
\* tm is the artifacts that exist when it is raised: a handler outside
\* _run_with_limits returns without any cleanup.
Throw(t, site, exc, tm) ==
    LET cp == IF site = "run" THEN None ELSE current_process
    IN  IF site = "run" /\ CaughtBy("run", exc)
        THEN StageEnd(t, IF exc = "FileNotFoundError" THEN "nofile"
                         ELSE "procerr")
        ELSE /\ temps' = tm
             /\ timeout' = 0
             /\ IF site \in {"run", "lang"} /\ CaughtBy("lang", exc)
                THEN Return(t, "langerr", cp)
                ELSE IF CaughtBy("top", exc) THEN Return(t, "execerr", cp)
                ELSE Return(t, "raised", cp)

(***************************************************************************)
(* execute_code                                                            *)
(***************************************************************************)

\* A thread calls execute_code(code, language).
Invoke(t) ==
    /\ pc[t] = "idle"
    /\ t \in active
    /\ pc' = [pc EXCEPT ![t] = "acquire"]
    /\ result' = [result EXCEPT ![t] = "none"]
    /\ timedout' = [timedout EXCEPT ![t] = FALSE]
    /\ waiting' = Append(waiting, t)
    /\ UNCHANGED <<active, stopped, killed, timeout, platform, query, source, execution_lock, current_process, root, desc,
                   language, stage, proc, compile_result, parent, children,
                   temps, probed, popens, call, ret>>

\* with self.execution_lock: blocks until the lock is free; the body starts
\* with self.stop_execution().
Acquire(t) ==
    /\ pc[t] = "acquire"
    /\ execution_lock = Free
    /\ execution_lock' = t
    /\ pc' = [pc EXCEPT ![t] = "s_check"]
    /\ temps' = NoTemps
    /\ probed' = FALSE
    /\ popens' = 0
    /\ waiting' = SelectSeq(waiting, LAMBDA w : w # t)
    /\ UNCHANGED <<active, stopped, killed, timeout, platform, query, source, current_process, root, desc, language, stage, proc,
                   compile_result, result, timedout, parent, children, call,
                   ret>>

\* A dispatch that writes the code to its temporary file before the policy
\* has been asked.
CheckTempBeforePolicy(t) ==
    /\ pc[t] = "check"
    /\ \E l \in Languages, safe \in BOOLEAN :
         /\ NSpawned + StagesOf(l) <= MaxSpawn
         /\ IF ~safe
            THEN /\ Return(t, "rejected", current_process)
                 /\ temps' = [temps EXCEPT !["temp_file"] = "exists"]
                 /\ UNCHANGED source
            ELSE /\ UNCHANGED temps
                 /\ IF l = "other"
                    THEN /\ Return(t, "unsupported", current_process)
                         /\ UNCHANGED source
                    ELSE /\ pc' = [pc EXCEPT ![t] = IF l = "python"
                                                    THEN "mktemp"
                                                    ELSE "probe"]
                         /\ language' = [language EXCEPT ![t] = l]
                         /\ source' \in SourcesOf(l)
                         /\ UNCHANGED <<stopped, killed, result, execution_lock, stage,
                                        compile_result, proc,
                                        current_process>>
    /\ UNCHANGED <<active, timeout, platform, query, waiting, root, desc, timedout, parent, children, probed,
                   popens, call, ret>>

\* A dispatch without its else branch: a language it does not know goes on
\* to a driver.
CheckNoElse(t) ==
    /\ pc[t] = "check"
    /\ \E l \in Languages, safe \in BOOLEAN :
         /\ NSpawned + StagesOf(l) <= MaxSpawn
         /\ IF ~safe
            THEN /\ Return(t, "rejected", current_process)
                 /\ UNCHANGED source
            ELSE /\ pc' = [pc EXCEPT ![t] = IF l = "python" THEN "mktemp"
                                            ELSE "probe"]
                 /\ language' = [language EXCEPT ![t] = l]
                 /\ source' \in SourcesOf(l)
                 /\ UNCHANGED <<stopped, killed, result, execution_lock, stage, compile_result,
                                proc, current_process>>
    /\ UNCHANGED <<active, timeout, platform, query, waiting, root, desc, timedout, parent, children, temps,
                   probed, popens, call, ret>>

\* is_code_safe(code, language), then the dispatch on language.  The
\* language argument and the verdict of the policy are inputs; a language is
\* taken only if the processes it needs are within MaxSpawn.  The code of a
\* java request is one of the java sources that the policy accepts.
Check(t) ==
    /\ pc[t] = "check"
    /\ \E l \in Languages, safe \in BOOLEAN :
         /\ NSpawned + StagesOf(l) <= MaxSpawn
         /\ IF ~safe
            THEN /\ Return(t, "rejected", current_process)
                 /\ UNCHANGED source
            ELSE IF l = "other"
            THEN /\ Return(t, "unsupported", current_process)
                 /\ UNCHANGED source
            ELSE /\ pc' = [pc EXCEPT ![t] = IF l = "python" THEN "mktemp"
                                            ELSE "probe"]
                 /\ language' = [language EXCEPT ![t] = l]
                 /\ source' \in SourcesOf(l)
                 /\ UNCHANGED <<stopped, killed, result, execution_lock, stage, compile_result,
                                proc, current_process>>
    /\ UNCHANGED <<active, timeout, platform, query, waiting, root, desc, timedout, parent, children, temps,
                   probed, popens, call, ret>>

\* _check_command_available for node, for javac and java, or for g++; for
\* java then _extract_java_class_name on the code.  The commands that are
\* missing are an input.
Probe(t) ==
    /\ pc[t] = "probe"
    /\ \E missing \in SUBSET ToolsOf(language[t]) :
         IF missing # {} THEN Return(t, "notavail", current_process)
         ELSE IF language[t] = "java"
                 /\ ~extract_java_class_name(source.toks)
              THEN Return(t, "noclass", current_process)
         ELSE /\ pc' = [pc EXCEPT ![t] = "mktemp"]
              /\ UNCHANGED <<stopped, killed, result, execution_lock, language, stage,
                             compile_result, proc, current_process>>
    /\ probed' = TRUE
    /\ source' = NoSource
    /\ UNCHANGED <<active, timeout, platform, query, waiting, root, desc, timedout, parent, children, temps,
                   popens, call, ret>>

\* The temporary artifacts are made in order and the code is written; a
\* failure raises inside _execute_<language>, after the first k artifacts
\* have been made (all of them when it is the write that fails).
Mktemp(t) ==
    /\ pc[t] = "mktemp"
    /\ LET arts == ArtifactsOf(language[t])
           Made(k) == [a \in Artifacts |->
                         IF \E i \in 1..k : arts[i] = a THEN "exists"
                         ELSE "none"]
       IN  \E k \in 0..Len(arts), ok \in BOOLEAN :
             IF ok /\ k = Len(arts)
             THEN /\ pc' = [pc EXCEPT ![t] = "spawn"]
                  /\ temps' = Made(k)
                  /\ UNCHANGED <<stopped, killed, result, execution_lock, language, stage,
                                 compile_result, proc, current_process, timeout>>
             ELSE /\ ~ok
                  /\ Throw(t, "lang", "OSError", Made(k))
    /\ UNCHANGED <<active, platform, query, waiting, source, root, desc, timedout, parent, children, probed,
                   popens, call, ret>>

(***************************************************************************)
(* _run_with_limits                                                        *)
(***************************************************************************)

\* The exceptions subprocess.Popen can raise: an OSError (no process could
\* be made), and FileNotFoundError for a command that does not exist, which
\* is possible for python3 only, the one command run without a probe.  Where
\* preexec_fn is not supported Popen raises ValueError for its argument
\* preexec_fn=self._set_limits, before it starts anything.
PopenErrors(l) ==
    IF platform = "nt" THEN {"ValueError"}
    ELSE IF l = "python" THEN {"OSError", "FileNotFoundError"}
    ELSE {"OSError"}

\* self.current_process = subprocess.Popen(...), or Popen raises.  In the
\* new process _set_limits runs before the command: an exception of
\* 'import resource' or of setrlimit is passed over by its bare except, so
\* the command runs with or without the limits.
Spawn(t) ==
    /\ pc[t] = "spawn"
    /\ \/ /\ platform = "posix"
          /\ NSpawned < MaxSpawn
          /\ LET p == NSpawned + 1
             IN  /\ root' = Norm([root EXCEPT ![p] = "alive"], p)
                 /\ current_process' = p
          /\ pc' = [pc EXCEPT ![t] = "communicate"]
          /\ timeout' = StageTimeout(language[t], stage[t])
          /\ UNCHANGED <<stopped, killed, result, execution_lock, language, stage,
                         compile_result, proc, temps>>
       \/ /\ \E exc \in PopenErrors(language[t]) :
                Throw(t, "run", exc, temps)
          /\ root' = Norm(root, None)
    /\ popens' = popens + 1
    /\ UNCHANGED <<active, platform, query, waiting, source, desc, timedout, parent, children, probed, call,
                   ret>>

\* self.current_process.communicate(timeout=timeout): the attribute is read
\* again, and the call is made on what it holds now.
Communicate(t) ==
    /\ pc[t] = "communicate"
    /\ IF current_process = None
       THEN Throw(t, "run", "AttributeError", temps)
       ELSE /\ proc' = [proc EXCEPT ![t] = current_process]
            /\ pc' = [pc EXCEPT ![t] = "wait"]
            /\ UNCHANGED <<stopped, killed, result, execution_lock, language, stage,
                           compile_result, current_process, temps, timeout>>
    /\ UNCHANGED <<active, platform, query, waiting, source, root, desc, timedout, parent, children, probed,
                   popens, call, ret>>

\* communicate() returns once it has read the pipe to its end (no writer is
\* left) and the process has ended; then self.current_process.returncode is
\* read and the result is built.
Complete(t) ==
    /\ pc[t] = "wait"
    /\ ~PipeOpen(proc[t])
    /\ IF current_process = None
       THEN Throw(t, "run", "AttributeError", temps)
       ELSE IF root[current_process] = "exit0"
            THEN \E out \in {"ok_noout", "ok_clean", "ok_errword"} :
                    StageEnd(t, out)
            ELSE StageEnd(t, "errors")
    /\ root' = Norm(root, None)
    /\ desc' = Quiet(desc, None, proc')
    /\ UNCHANGED <<active, platform, query, waiting, source, timedout, parent, children, probed, popens, call,
                   ret>>

\* A handler of TimeoutExpired that, after the kill, calls communicate()
\* again without a timeout (as subprocess.run does): the call stays in the
\* wait until the pipe is closed.
TimeoutThenWait(t) ==
    /\ pc[t] = "wait"
    /\ current_process # None
    /\ timedout' = [timedout EXCEPT ![t] = TRUE]
    /\ root' = Norm(Kill(root, current_process), current_process)
    /\ UNCHANGED <<active, stopped, killed, platform, query, waiting, source, execution_lock,
                   current_process, desc, pc, language, stage, proc,
                   compile_result, result, parent, children, temps, probed,
                   popens, timeout, call, ret>>

\* communicate() raises TimeoutExpired; the handler calls
\* self.current_process.kill(), which signals the process itself only.
Timeout(t) ==
    /\ pc[t] = "wait"
    /\ timedout' = [timedout EXCEPT ![t] = TRUE]
    /\ IF current_process = None
       THEN /\ Throw(t, "run", "AttributeError", temps)
            /\ root' = Norm(root, None)
       ELSE /\ root' = Norm(Kill(root, current_process), None)
            /\ StageEnd(t, "timeout")
    /\ desc' = Quiet(desc, None, proc')
    /\ UNCHANGED <<active, platform, query, waiting, source, parent, children, probed, popens, call, ret>>

(***************************************************************************)
(* stop_execution                                                          *)
(***************************************************************************)

\* The Stop button: stop_execution is called with no lock taken.
StopCall(c) ==
    /\ pc[c] = "idle"
    /\ c \in active
    /\ pc' = [pc EXCEPT ![c] = "s_check"]
    /\ UNCHANGED <<active, stopped, killed, timeout, platform, query, waiting, source, execution_lock, current_process, root, desc,
                   language, stage, proc, compile_result, result, timedout,
                   parent, children, temps, probed, popens, call, ret>>

\* stop_execution returns: to execute_code, or to the Stop button.
StopReturn(t) ==
    /\ pc' = [pc EXCEPT ![t] = IF t \in Execs THEN "check" ELSE "idle"]
    /\ parent' = [parent EXCEPT ![t] = None]
    /\ stopped' = IF t \in Cancellers /\ execution_lock # Free THEN TRUE
                  ELSE stopped

\* stop_execution without its test of the handle.
StopCheckNoTest(t) ==
    /\ pc[t] = "s_check"
    /\ pc' = [pc EXCEPT ![t] = "s_lookup"]
    /\ UNCHANGED <<active, stopped, killed, timeout, platform, query, waiting, source, execution_lock, current_process, root, desc,
                   language, stage, proc, compile_result, result, timedout,
                   parent, children, temps, probed, popens, call, ret>>

\* if self.current_process:
StopCheck(t) ==
    /\ pc[t] = "s_check"
    /\ IF current_process = None
       THEN StopReturn(t)
       ELSE /\ pc' = [pc EXCEPT ![t] = "s_lookup"]
            /\ UNCHANGED <<parent, stopped>>
    /\ UNCHANGED <<active, killed, timeout, platform, query, waiting, source, execution_lock, current_process, root, desc,
                   language, stage, proc, compile_result, result, timedout,
                   children, temps, probed, popens, call, ret>>

\* parent = psutil.Process(self.current_process.pid);
\* children = parent.children(recursive=True).  The handle is read again: it
\* may be None by now (AttributeError), and a process that has ended is gone
\* (NoSuchProcess) or a zombie without children; the bare except swallows both.
StopLookup(t) ==
    /\ pc[t] = "s_lookup"
    /\ IF current_process = None \/ root[current_process] # "alive"
       THEN /\ pc' = [pc EXCEPT ![t] = "s_clear"]
            /\ UNCHANGED <<parent, children>>
       ELSE LET kids == AliveDescs(current_process, 1)
            IN  /\ parent' = [parent EXCEPT ![t] = current_process]
                /\ children' = [children EXCEPT ![t] = kids]
                /\ pc' = [pc EXCEPT ![t] = IF kids = <<>> THEN "s_killparent"
                                           ELSE "s_killchildren"]
    /\ UNCHANGED <<active, stopped, killed, timeout, platform, query, waiting, source, execution_lock, current_process, root, desc,
                   language, stage, proc, compile_result, result, timedout,
                   temps, probed, popens, call, ret>>

\* for child in children: child.kill().  A child that has exited since the
\* enumeration is either a zombie (the signal is accepted) or gone, and then
\* kill() raises NoSuchProcess, which ends the try block.
StopKillChild(t) ==
    /\ pc[t] = "s_killchildren"
    /\ LET p == parent[t]
           d == Head(children[t])
           rest == Tail(children[t])
           goOn == /\ children' = [children EXCEPT ![t] = rest]
                   /\ pc' = [pc EXCEPT ![t] = IF rest = <<>>
                                              THEN "s_killparent"
                                              ELSE "s_killchildren"]
                   /\ UNCHANGED parent
       IN  IF desc[p][d] # "gone"
           THEN /\ desc' = [desc EXCEPT ![p][d] = "gone"]
                /\ goOn
           ELSE /\ UNCHANGED desc
                /\ \/ goOn
                   \/ /\ children' = [children EXCEPT ![t] = <<>>]
                      /\ pc' = [pc EXCEPT ![t] = "s_clear"]
                      /\ UNCHANGED parent
    /\ UNCHANGED <<active, stopped, killed, timeout, platform, query, waiting, source, execution_lock, current_process, root, language,
                   stage, proc, compile_result, result, timedout, temps,
                   probed, popens, call, ret>>

\* parent.kill()
StopKillParent(t) ==
    /\ pc[t] = "s_killparent"
    /\ root' = Norm(Kill(root, parent[t]), current_process)
    /\ pc' = [pc EXCEPT ![t] = "s_clear"]
    /\ killed' = (\/ killed
                  \/ /\ root[parent[t]] = "alive"
                     /\ \E u \in Execs :
                           InStage(u) /\ parent[t] = StageProcess(u))
    /\ UNCHANGED <<active, stopped, timeout, platform, query, waiting, source, execution_lock, current_process, desc, language,
                   stage, proc, compile_result, result, timedout, parent,
                   children, temps, probed, popens, call, ret>>

\* self.current_process = None, after the try statement.
StopClear(t) ==
    /\ pc[t] = "s_clear"
    /\ current_process' = None
    /\ root' = Norm(root, None)
    /\ StopReturn(t)
    /\ desc' = Quiet(desc, None, proc)
    /\ UNCHANGED <<active, killed, timeout, platform, query, waiting, source, execution_lock, language, stage, proc,
                   compile_result, result, timedout, children, temps, probed,
                   popens, call, ret>>

(***************************************************************************)
(* The processes                                                           *)
(***************************************************************************)

\* Descendant slot d of p is free: nothing runs in it, and no list of
\* children made earlier names it.
FreeSlot(p, d) ==
    /\ desc[p][d] = "gone"
    /\ \A t \in Threads :
          parent[t] = p => \A i \in 1..Len(children[t]) : children[t][i] # d

\* A running stage process starts a descendant, in the first free slot.  It
\* is a new process: no list of children made earlier holds it.  It inherits
\* the stdout pipe, unless the pipe has been given up already.
Fork(p, d) ==
    /\ root[p] = "alive"
    /\ FreeSlot(p, d)
    /\ \A e \in Descs : e < d => ~FreeSlot(p, e)
    /\ desc' = Quiet([desc EXCEPT ![p][d] = "alive"], current_process, proc)
    /\ UNCHANGED <<active, stopped, killed, timeout, platform, query, waiting, source, execution_lock, current_process, root, pc,
                   language, stage, proc, compile_result, result, timedout,
                   parent, children, temps, probed, popens, call, ret>>

\* A descendant closes or redirects its stdout.
Detach(p, d) ==
    /\ desc[p][d] = "alive"
    /\ desc' = [desc EXCEPT ![p][d] = "detached"]
    /\ UNCHANGED <<active, stopped, killed, timeout, platform, query, waiting, source, execution_lock, current_process, root, pc,
                   language, stage, proc, compile_result, result, timedout,
                   parent, children, temps, probed, popens, call, ret>>

\* A descendant exits by itself.
DescExit(p, d) ==
    /\ desc[p][d] # "gone"
    /\ desc' = [desc EXCEPT ![p][d] = "gone"]
    /\ UNCHANGED <<active, stopped, killed, timeout, platform, query, waiting, source, execution_lock, current_process, root, pc,
                   language, stage, proc, compile_result, result, timedout,
                   parent, children, temps, probed, popens, call, ret>>

\* A stage process exits by itself, with exit code 0 or not.
RootExit(p) ==
    /\ root[p] = "alive"
    /\ \E rc \in {"exit0", "exit1"} :
         root' = Norm([root EXCEPT ![p] = rc], current_process)
    /\ UNCHANGED <<active, stopped, killed, timeout, platform, query, waiting, source, execution_lock, current_process, desc, pc,
                   language, stage, proc, compile_result, result, timedout,
                   parent, children, temps, probed, popens, call, ret>>

(***************************************************************************)
(* get_execution_status                                                    *)
(***************************************************************************)

\* What every step of get_execution_status leaves alone.
StatusFrame ==
    UNCHANGED <<active, stopped, killed, timeout, platform, execution_lock, current_process, root, desc, pc,
                language, stage, proc, compile_result, result, timedout,
                parent, children, temps, probed, popens, source, waiting,
                call, ret>>

\* A thread calls get_execution_status().
StatusCall(q) ==
    /\ q \in active
    /\ query.pc = "idle"
    /\ query' = [NoQuery EXCEPT !.pc = "test"]
    /\ StatusFrame

\* "is_running": self.current_process is not None and ...
StatusTest ==
    /\ query.pc = "test"
    /\ query' = IF current_process = None
                THEN [query EXCEPT !.pc = "cond"]
                ELSE [query EXCEPT !.pc = "poll"]
    /\ StatusFrame

\* ... self.current_process.poll() is None: the attribute is read again, and
\* poll() is None while the process runs.  On None the call raises
\* AttributeError.
StatusPoll ==
    /\ query.pc = "poll"
    /\ query' = IF current_process = None THEN NoQuery
                ELSE [pc |-> "cond",
                      is_running |-> root[current_process] = "alive",
                      seen |-> current_process]
    /\ StatusFrame

\* "process_id": ... if self.current_process else None; with None the
\* dictionary is returned.
StatusCond ==
    /\ query.pc = "cond"
    /\ query' = IF current_process = None THEN NoQuery
                ELSE [query EXCEPT !.pc = "pid"]
    /\ StatusFrame

\* self.current_process.pid, read once more, and the return of the
\* dictionary; on None the call raises AttributeError.
StatusPid ==
    /\ query.pc = "pid"
    /\ query' = NoQuery
    /\ StatusFrame

Next ==
    \/ \E t \in Execs : Invoke(t)
    \/ \E t \in Execs : Acquire(t)
    \/ \E t \in Execs : Check(t)
    \/ \E t \in Execs : Probe(t)
    \/ \E t \in Execs : Mktemp(t)
    \/ \E t \in Execs : Spawn(t)
    \/ \E t \in Execs : Communicate(t)
    \/ \E t \in Execs : Complete(t)
    \/ \E t \in Execs : Timeout(t)
    \/ \E c \in Cancellers : StopCall(c)
    \/ \E t \in Threads : StopCheck(t)
    \/ \E t \in Threads : StopLookup(t)
    \/ \E t \in Threads : StopKillChild(t)
    \/ \E t \in Threads : StopKillParent(t)
    \/ \E t \in Threads : StopClear(t)
    \/ \E p \in Pids, d \in Descs : Fork(p, d)
    \/ \E p \in Pids, d \in Descs : Detach(p, d)
    \/ \E p \in Pids, d \in Descs : DescExit(p, d)
    \/ \E p \in Pids : RootExit(p)
    \/ \E q \in Queriers : StatusCall(q)
    \/ StatusTest
    \/ StatusPoll
    \/ StatusCond
    \/ StatusPid

Spec == Init /\ [][Next]_vars

\* The scheduling of the threads.  A thread that can take its next step
\* takes it: the steps of execute_code and of the stop_execution it calls
\* are ordinary code.  communicate(timeout=timeout) returns or raises
\* TimeoutExpired: the process ends and the pipe is closed, or the timeout
\* is reached.  A thread blocked in 'with self.execution_lock' gets the lock
\* if the lock is free again and again.  Nothing is assumed of the callers
\* (new calls, the Stop button, the status query) nor of the processes.
Fairness ==
    /\ \A t \in Execs : SF_vars(Acquire(t))
    /\ \A t \in Execs :
          WF_vars(Check(t) \/ Probe(t) \/ Mktemp(t) \/ Spawn(t)
                  \/ Communicate(t))
    /\ \A t \in Execs : WF_vars(Complete(t) \/ Timeout(t))
    /\ \A t \in Execs :
          WF_vars(StopCheck(t) \/ StopLookup(t) \/ StopKillChild(t)
                  \/ StopKillParent(t) \/ StopClear(t))

LiveSpec == Init /\ [][Next]_vars /\ Fairness


(***************************************************************************)
(* Result formatting (_run_with_limits) and sanitize_output                *)
(***************************************************************************)

\* The result strings of _run_with_limits, as texts (the leading symbol of
\* each message is left out).  An outcome is what the stage did: it exited
\* with return code rc and output, it timed out, or an exception with message
\* msg was raised.
Plain(toks) == [toks |-> toks, fill |-> 0, tail |-> <<>>]

\* A format that has no case for an empty output.
FormatNoEmptyCase(o) ==
    CASE o.kind = "exit" ->
           [o.output EXCEPT
              !.toks = (IF o.rc = 0 THEN <<"Execution completed:", "\n">>
                        ELSE <<"Execution completed with errors (exit code ",
                               ToString(o.rc), "):", "\n">>) \o @]
      [] o.kind = "timeout" -> Plain(<<"Execution timeout - process killed">>)
      [] OTHER -> Plain(<<"Process execution error: ">> \o o.msg)

FormatResult(o) ==
    CASE o.kind = "exit" /\ o.rc = 0 ->
           IF o.output.toks # <<>> \/ o.output.fill > 0
           THEN [o.output EXCEPT
                   !.toks = <<"Execution completed:", "\n">> \o @]
           ELSE Plain(<<"Execution completed (no output)">>)
      [] o.kind = "exit" /\ o.rc # 0 ->
           [o.output EXCEPT
              !.toks = <<"Execution completed with errors (exit code ",
                         ToString(o.rc), "):", "\n">> \o @]
      [] o.kind = "timeout" -> Plain(<<"Execution timeout - process killed">>)
      [] OTHER -> Plain(<<"Process execution error: ">> \o o.msg)

\* /[/\w.-]+ , [A-Za-z]:\\[\\w.-]+ (after the drive, only the characters
\* \ w . - : C:\Users does not match) and the dotted quad, on the tokens of
\* the model.
PathShaped(tok) == tok \in {"/tmp/tmpab12.py", "/tmp/tmpab12", "/etc/passwd"}
DrivePathShaped(tok) == tok \in {"C:\\w.w"}
IPShaped(tok) == tok \in {"10.0.0.1"}
Scrub(tok) ==
    IF PathShaped(tok) \/ DrivePathShaped(tok) THEN "[PATH_REMOVED]"
    ELSE IF IPShaped(tok) THEN "[IP_REMOVED]"
    ELSE tok

\* sanitize_output of a text whose tokens come first and are fewer than
\* MaxOutputLen characters: output[:5000] cuts in the fill.
sanitize_output(output) ==
    LET toks == [i \in 1..Len(output.toks) |-> Scrub(output.toks[i])]
    IN  IF SumLen(toks) + output.fill > MaxOutputLen
        THEN [toks |-> toks, fill |-> MaxOutputLen - SumLen(toks),
              tail |-> <<"\n... [Output truncated for security]">>]
        ELSE [output EXCEPT !.toks = toks]

(***************************************************************************)
(* The functions, called on their own                                      *)
(***************************************************************************)

\* Module names, as tokens.
Modules == {<<"math">>, <<"socket">>, <<"ctypes", ".", "util">>}
NameSeqs == UNION {[1..n -> Modules] : n \in 1..MaxNames}

\* Texts in which a denylist pattern of the lang occurs.
DenySnippets(lang) ==
    CASE lang = "python" ->
           {<<"eval", "(", "x", ")">>, <<"EVAL", " ", "(", "x", ")">>,
            <<"os", ".", "getcwd", "(", ")">>, <<"import", "\n", "os">>,
            <<"open", "(", "x", ")">>}
      [] lang = "javascript" ->
           {<<"eval", "(", "x", ")">>, <<"XMLHttpRequest">>,
            <<"window", ".", "x">>, <<"el", ".", "innerHTML", " ", "=", "x">>}
      [] lang = "java" ->
           {<<"Runtime", ".", "getRuntime", "(", ")">>,
            <<"System", ".", "exit", " ", "(", "0", ")">>,
            <<"new", " ", "ProcessBuilder", "(", ")">>}
      [] lang = "cpp" ->
           {<<"system", "(", "x", ")">>, <<"#include", "<", "cstdlib", ">">>,
            <<"delete", " ", "p">>, <<"new", " ", "int", "[", "4", "]">>}
      [] OTHER -> {}

\* Texts that only a later rule of the check is about.
OtherSnippets ==
    {<<"x", " ", "=", "1">>, <<"x", ".", "__class__">>,
     <<"x", ".", "constructor">>, <<"x", ".", "getClass", "(", ")">>,
     <<"ASM", " ", "(", "x", ")">>,
     <<"#include", " ", "<", "windows", ".", "h", ">">>}

SupportedLanguages == {"python", "javascript", "java", "cpp"}

\* One statement of a source text: an import statement of python with its
\* module names, or a text as it is.
Stmts ==
    [k : {"import"}, indent : BOOLEAN, mods : NameSeqs, alias : BOOLEAN,
     toks : {<<>>}]
    \cup [k : {"from"}, indent : BOOLEAN, mods : {<<m>> : m \in Modules},
          alias : {FALSE}, toks : {<<>>}]
    \cup [k : {"raw"}, indent : {FALSE}, mods : {<<>>}, alias : {FALSE},
          toks : {Hello(l) : l \in SupportedLanguages}
                 \cup UNION {DenySnippets(l) : l \in SupportedLanguages}
                 \cup OtherSnippets]

RECURSIVE JoinNames(_)
JoinNames(ms) ==
    IF Len(ms) = 1 THEN ms[1]
    ELSE ms[1] \o <<",", " ">> \o JoinNames(Tail(ms))

\* The text of a statement.
Render(st) ==
    LET ind == IF st.indent THEN <<" ">> ELSE <<>>
    IN  CASE st.k = "import" ->
               ind \o <<"import", " ">> \o JoinNames(st.mods)
                   \o (IF st.alias THEN <<" ", "as", " ", "m">> ELSE <<>>)
          [] st.k = "from" ->
               ind \o <<"from", " ">> \o st.mods[1]
                   \o <<" ", "import", " ", "x">>
          [] OTHER -> st.toks

\* A first line before the statement.
Leads == {<<>>, <<"x", " ", "=", "1", "\n">>, <<"import", " ", "math", "\n">>}

\* The source texts: a statement, after a first line or not, and then
\* nothing more, or a last line of filling characters, of one or two bytes
\* each, that brings the text to exactly MaxSourceLen or MaxSourceLen + 1
\* characters.  And None.
Codes ==
    {[kind |-> "str", stmt |-> st,
      toks |-> lead \o Render(st) \o (IF pad = 0 THEN <<>> ELSE <<"\n">>),
      fill |-> IF pad = 0 THEN 0
               ELSE MaxSourceLen + (pad - 1)
                    - SumLen(lead \o Render(st) \o <<"\n">>),
      width |-> w] :
        st \in Stmts, lead \in Leads,
        pad \in 0..2, w \in 1..2}
    \cup {[kind |-> "none", stmt |-> CHOOSE st \in Stmts : st.k = "raw",
           toks |-> <<>>, fill |-> 0, width |-> 1]}

\* Outputs of a stage, and messages of exceptions.
Outputs ==
    {[toks |-> toks, fill |-> n, tail |-> <<>>] :
        toks \in {<<>>, <<"Hello, World!", "\n">>,
                  <<"File", " ", "/tmp/tmpab12.py", ",", " ", "line", " ",
                    "1", "\n">>,
                  <<"10.0.0.1", "\n">>, <<"error", ":", " ", "x", "\n">>,
                  <<"C:\\Users\\me", " ", "C:\\w.w", "\n">>},
        n \in {0, MaxOutputLen + 1}}
Messages ==
    {<<"[Errno 2] No such file or directory: 'python3'">>,
     <<"'NoneType' object has no attribute 'kill'">>,
     <<"[Errno 13] Permission denied: ", "/tmp/tmpab12">>}
Outcomes ==
    [kind : {"exit"}, rc : {0, 1, -9}, output : Outputs, msg : {<<>>}]
    \cup [kind : {"timeout"}, rc : {0}, output : {Plain(<<>>)}, msg : {<<>>}]
    \cup [kind : {"exception"}, rc : {0}, output : {Plain(<<>>)},
          msg : Messages]

Calls ==
    [fn : {"is_code_safe"}, code : Codes,
     language : SupportedLanguages \cup {"other", Unhashable}]
    \cup [fn : {"_run_with_limits"}, outcome : Outcomes]
    \cup [fn : {"sanitize_output"}, output : Outputs]

Returned == Len(ret) = 1

\* An is_code_safe that keeps a copy of the code it is asked about in a
\* file.
IsCodeSafeKeepingCopy ==
    /\ call.fn = "is_code_safe"
    /\ ~Returned
    /\ ret' = <<is_code_safe(call.code, call.language)>>
    /\ temps' = [temps EXCEPT !["temp_file"] = "exists"]
    /\ UNCHANGED <<active, stopped, killed, platform, execution_lock, current_process, root,
                   desc, pc, language, stage, proc, compile_result, result,
                   timedout, parent, children, probed, popens, source,
                   waiting, timeout, query, call>>

\* security_manager.is_code_safe(code, lang)
IsCodeSafe ==
    /\ call.fn = "is_code_safe"
    /\ ~Returned
    /\ ret' = <<is_code_safe(call.code, call.language)>>
    /\ UNCHANGED <<exec_vars, call>>

\* The result _run_with_limits builds for an outcome of its stage.
RunResult ==
    /\ call.fn = "_run_with_limits"
    /\ ~Returned
    /\ ret' = <<FormatResult(call.outcome)>>
    /\ UNCHANGED <<exec_vars, call>>

\* security_manager.sanitize_output(output)
SanitizeOutput ==
    /\ call.fn = "sanitize_output"
    /\ ~Returned
    /\ ret' = <<sanitize_output(call.output)>>
    /\ UNCHANGED <<exec_vars, call>>

PureInit ==
    /\ ExecInit
    /\ active = {"e1", "e2"}
    /\ platform = "posix"
    /\ call \in Calls
    /\ ret = <<>>

PureNext == IsCodeSafe \/ RunResult \/ SanitizeOutput

PureSpec == PureInit /\ [][PureNext]_vars


(***************************************************************************)
(* The claims                                                              *)
(***************************************************************************)

InCall(t) == pc[t] \notin {"idle", "acquire"}
AliveTrees == {p \in Pids : TreeAlive(p)}
StopStep(t) ==
    \/ StopCheck(t)
    \/ StopLookup(t)
    \/ StopKillChild(t)
    \/ StopKillParent(t)
    \/ StopClear(t)

\* C1: in every reachable state at most one process tree started by
\* execute_code has a running process (the stage process or a descendant).
C1_OneTreeAlive == Cardinality(AliveTrees) <= 1

\* C2: a call of execute_code made while another call's stage process is
\* running does not wait: its next step can be taken now (and would cancel
\* the running execution).
C2_NewCallDoesNotWait ==
    \A t \in Execs :
        (/\ pc[t] = "acquire"
         /\ current_process # None
         /\ root[current_process] = "alive") => ENABLED Acquire(t)

\* C3: at most one thread is inside execute_code's locked body, and the lock
\* is held by a thread exactly while that thread is inside it: every return
\* has released it.
C3_LockSerializes ==
    /\ \A t1, t2 \in Execs : InCall(t1) /\ InCall(t2) => t1 = t2
    /\ \A t \in Execs : InCall(t) <=> execution_lock = t

\* C3 witness: one thread has returned the timeout result and released the
\* lock, and another thread holds it, waiting for its own stage process.
C3_Witness ==
    \E t1, t2 \in Execs :
        /\ pc[t1] = "idle" /\ result[t1] = "timeout"
        /\ execution_lock = t2 /\ pc[t2] = "wait"

\* C4: when stop_execution returns after finding a tracked process, that
\* process and all of its descendants have been killed and the handle is None.
C4_CancelKillsTree ==
    [][\A t \in Threads :
          (pc[t] = "s_clear" /\ pc'[t] # "s_clear" /\ parent[t] # None)
          => /\ current_process' = None
             /\ root'[parent[t]] # "alive"
             /\ \A d \in Descs : desc'[parent[t]][d] = "gone"]_vars

\* C5: stop_execution called while the handle is None returns at once: it
\* kills no process, leaves the handle None and changes nothing else, so any
\* number of such calls leaves the state one call leaves.
C5_CancelIdleNoOp ==
    [][\A t \in Threads :
          (pc[t] = "s_check" /\ current_process = None /\ pc'[t] # "s_check")
          => /\ pc'[t] = IF t \in Execs THEN "check" ELSE "idle"
             /\ UNCHANGED <<execution_lock, current_process, root, desc,
                            language, stage, proc, compile_result, result,
                            timedout, children>>]_vars

\* C5 witness: stop_execution is at its test, the handle is None, and a
\* process left behind by an earlier stage is still running.
C5_Witness ==
    \E c \in Cancellers :
        pc[c] = "s_check" /\ current_process = None /\ AliveTrees # {}

\* C6: stop_execution never waits for the execution lock (each of its steps
\* can be taken whoever holds the lock), and once stop_execution has killed
\* the process a thread waits for in communicate(), that thread can leave the
\* wait without the timeout.
C6_CancelInterruptsWait ==
    /\ \A c \in Cancellers : pc[c] # "idle" => ENABLED StopStep(c)
    /\ \A t \in Execs :
          pc[t] = "wait" /\ root[proc[t]] = "killed" => ENABLED Complete(t)

\* C7: execute_code never raises: every result is a result string.
C7_NeverRaises == \A t \in Execs : result[t] # "raised"

\* C7 witness: the timeout handler found the handle cleared by a concurrent
\* stop_execution, and the fault came back as an error result.
C7_Witness == \E t \in Execs : result[t] = "procerr" /\ timedout[t]

\* C8: a request one of whose stages hit its timeout returns the timeout
\* result.
C8_TimeoutResult ==
    \A t \in Execs : pc[t] = "idle" /\ timedout[t] => result[t] = "timeout"

\* C9: when execute_code returns the timeout result, no process of the
\* timed-out stage's process tree is running.
C9_TimeoutKillsTree ==
    [][\A t \in Execs :
          (pc[t] = "wait" /\ result'[t] = "timeout")
          => /\ root'[proc[t]] # "alive"
             /\ \A d \in Descs : desc'[proc[t]][d] = "gone"]_vars

\* C10: the run stage process of java and cpp is spawned only after a
\* compile stage that exited with code 0.
C10_RunOnlyAfterCompileOk ==
    \A t \in Execs :
        stage[t] = 2 /\ pc[t] \in {"communicate", "wait"}
        => compile_result[t] \in {"ok_noout", "ok_clean"}

\* The step in which thread t's call of execute_code returns.
Returns(t) == pc[t] # "idle" /\ pc'[t] = "idle"
\* What the request that returns has done: no artifact made, no probe, no
\* Popen call, no process started.
NothingMade == temps' = NoTemps
NothingStarted == popens' = 0 /\ NSpawned' = NSpawned

\* C11: when no call of execute_code is in progress, the last request has
\* left no temporary artifact that it did not try to delete: every artifact
\* is deleted or its own deletion failed.
C11_TempsDeleted ==
    execution_lock = Free => \A a \in Artifacts : temps[a] # "exists"

\* C12: a call that returns the policy-violation result has made no probe,
\* no Popen call, no process and no temporary artifact, and leaves the handle
\* None.
C12_RejectedDoesNothing ==
    [][\A t \in Execs :
          (Returns(t) /\ result'[t] = "rejected")
          => /\ ~probed'
             /\ NothingStarted
             /\ NothingMade
             /\ current_process' = None]_vars

\* C12 witness: a request has been rejected while the process tree of an
\* earlier request still has a running process.
C12_Witness ==
    \E t \in Execs :
        /\ pc[t] = "idle" /\ result[t] = "rejected"
        /\ execution_lock = Free /\ AliveTrees # {}

\* C18: no driver is entered for a language other than the four supported
\* ones, and a call that returns the unsupported-language result has made no
\* probe, no Popen call, no process and no temporary artifact.
C18_UnsupportedDoesNothing ==
    [][\A t \in Execs :
          /\ language'[t] \in {"none", "python", "javascript", "java", "cpp"}
          /\ (Returns(t) /\ result'[t] = "unsupported")
             => /\ ~probed'
                /\ NothingStarted
                /\ NothingMade]_vars

\* C18 witness: a request for an unsupported language has returned, after
\* another request had made and deleted a temporary file.
C18_Witness ==
    \E t1, t2 \in Execs :
        /\ pc[t1] = "idle" /\ result[t1] = "unsupported"
        /\ result[t2] = "ok_clean"
        /\ execution_lock = Free /\ temps = NoTemps /\ popens = 0

\* C19: a call that ends because its toolchain command does not exist
\* returns the 'not available' result, after a probe, with no temporary
\* artifact made and no Popen call.
C19_MissingToolchain ==
    [][\A t \in Execs :
          (Returns(t) /\ result'[t] \in {"notavail", "nofile"})
          => /\ result'[t] = "notavail"
             /\ probed'
             /\ popens' = 0
             /\ NothingMade]_vars

(***************************************************************************)
(* Claims about is_code_safe, sanitize_output and the result of a stage    *)
(***************************************************************************)

Answered(fn) == call.fn = fn /\ Returned
Accepted == ret[1] = TRUE
Rejected == ret[1] = FALSE

\* C13: for every language, a source text of more than MaxSourceLen bytes is
\* rejected by is_code_safe, whatever it contains.
C13_OversizeRejected ==
    (/\ Answered("is_code_safe")
     /\ call.code.kind = "str"
     /\ ByteSize(call.code) > MaxSourceLen)
    => Rejected

\* C14: for each of the four supported languages, a source text in which a
\* denylist pattern of the language matches, in any case of the letters, is
\* rejected by is_code_safe, whatever stands before and after the match; the
\* minimal hello-world program of the language is accepted.
C14_DenylistAndHello ==
    (Answered("is_code_safe") /\ call.code.kind = "str"
     /\ call.language \in SupportedLanguages)
    => /\ (\/ contains_dangerous_patterns(call.code.toks, call.language)
           \/ (/\ call.code.stmt.k = "raw"
               /\ call.code.stmt.toks \in DenySnippets(call.language)))
          => Rejected
       /\ (call.code.toks = Hello(call.language) /\ call.code.fill = 0)
          => Accepted

\* C14 witness: a python text that calls EVAL, in upper case and after a
\* first line, has been rejected.
C14_Witness ==
    /\ Answered("is_code_safe")
    /\ call.language = "python"
    /\ call.code.kind = "str"
    /\ call.code.toks = <<"x", " ", "=", "1", "\n", "EVAL", " ", "(", "x", ")">>
    /\ call.code.fill = 0
    /\ Rejected

\* The top-level name of a module.
TopLevel(m) == m[1]
Disallowed ==
    dangerous_modules \ allowed_imports("python")

\* C15: a python source text is rejected by is_code_safe if a module named
\* in an import statement, at any place of the list of the statement and at
\* any indentation, has its top-level name in the dangerous modules and not
\* in the allowed imports.
C15_DangerousImportRejected ==
    (/\ Answered("is_code_safe")
     /\ call.language = "python"
     /\ call.code.kind = "str"
     /\ call.code.stmt.k \in {"import", "from"}
     /\ \E i \in 1..Len(call.code.stmt.mods) :
           TopLevel(call.code.stmt.mods[i]) \in Disallowed)
    => Rejected

\* C16: when a step of the check raises an exception, is_code_safe returns
\* False: the exception does not leave the function and the source is not
\* accepted.
C16_FailClosed ==
    (Answered("is_code_safe") /\ Raises(call.code, call.language))
    => ret[1] \in BOOLEAN /\ Rejected

\* C16 witness: the check of a code that is None, for which re.search
\* raises TypeError, has returned False; the language is a supported one.
C16_Witness ==
    /\ Answered("is_code_safe")
    /\ call.code.kind = "none"
    /\ call.language = "javascript"
    /\ Rejected

\* The outcome of a stage with its output and its message scrubbed and
\* capped.
Sanitized(o) ==
    [o EXCEPT !.output = sanitize_output(@),
              !.msg = [i \in 1..Len(@) |-> Scrub(@[i])]]

\* C17: the result returned for a stage carries the output of the process,
\* and the text of an error message, after sanitize_output: paths and IP
\* addresses replaced, and at most MaxOutputLen characters of output before
\* the truncation marker.
C17_ResultScrubbed ==
    Answered("_run_with_limits")
    => ret[1] = FormatResult(Sanitized(call.outcome))

\* A text made of a first part and of the output of the process.
Before(prefix, output) ==
    [toks |-> prefix \o output.toks, fill |-> output.fill,
     tail |-> output.tail]
IsEmpty(output) ==
    output.toks = <<>> /\ output.fill = 0 /\ output.tail = <<>>

\* C20: the result of a stage is given by its outcome: return code 0 with
\* output gives "Execution completed:" and the output, return code 0 without
\* output gives "Execution completed (no output)", a return code N other
\* than 0 gives "Execution completed with errors (exit code N):" and the
\* output, a timeout gives "Execution timeout - process killed", and an
\* exception gives "Process execution error: " and its message.
C20_ResultByOutcome ==
    Answered("_run_with_limits")
    => LET o == call.outcome
           r == ret[1]
       IN  /\ (o.kind = "exit" /\ o.rc = 0 /\ ~IsEmpty(o.output))
              => r = Before(<<"Execution completed:", "\n">>, o.output)
           /\ (o.kind = "exit" /\ o.rc = 0 /\ IsEmpty(o.output))
              => r = Plain(<<"Execution completed (no output)">>)
           /\ (o.kind = "exit" /\ o.rc # 0)
              => r = Before(<<"Execution completed with errors (exit code ",
                              ToString(o.rc), "):", "\n">>, o.output)
           /\ o.kind = "timeout"
              => r = Plain(<<"Execution timeout - process killed">>)
           /\ o.kind = "exception"
              => r = Plain(<<"Process execution error: ">> \o o.msg)

\* C20 witness: a stage that exited with return code 0 and wrote nothing has
\* given the result without output.
C20_Witness ==
    /\ Answered("_run_with_limits")
    /\ call.outcome.kind = "exit"
    /\ call.outcome.rc = 0
    /\ IsEmpty(call.outcome.output)
    /\ ret[1].toks = <<"Execution completed (no output)">>

(***************************************************************************)
(* Claims about the drivers, the lock and the status query                 *)
(***************************************************************************)

\* Thread t leaves the place at in this step.
Leaves(t, at) == pc[t] = at /\ pc'[t] # at

\* C21: a java request whose code declares no public class ends at the
\* search for the class name, unless a command is missing: it returns the
\* 'no public class' result (or 'not available'), having made no temporary
\* artifact, no Popen call and no process.
C21_NoPublicClass ==
    [][\A t \in Execs :
          (Leaves(t, "probe") /\ language[t] = "java" /\ ~source.decl)
          => /\ Returns(t)
             /\ result'[t] \in {"noclass", "notavail"}
             /\ NothingMade
             /\ NothingStarted]_vars

\* C22: the requests enter the body of execute_code in the order of their
\* calls: the thread that acquires the lock is the one that called first
\* among those waiting.
C22_ServedInOrder ==
    [][\A t \in Execs : Leaves(t, "acquire") => Head(waiting) = t]_vars

\* The steps of _run_with_limits that use self.current_process after the
\* Popen: .communicate(), then .returncode or .kill().
UsesHandle(t) == Leaves(t, "communicate") \/ Leaves(t, "wait")

\* C23: the execute path never uses a handle that stop_execution has
\* cleared: at each of its uses the handle is a process, so no stage ends in
\* the AttributeError of None and in the internal-error result it gives.
C23_NoClearedHandleUse ==
    [][\A t \in Execs : UsesHandle(t) => current_process # None]_vars

\* get_execution_status raises in this step: it reads .poll() or .pid of a
\* handle that is None by now.
StatusRaises ==
    query.pc \in {"poll", "pid"} /\ current_process = None /\ query' = NoQuery
\* It returns its dictionary in this step: is_running as computed, and as
\* process_id the handle it reads now.
StatusReturns ==
    query.pc \in {"cond", "pid"} /\ query'.pc = "idle" /\ ~StatusRaises
Answer == [is_running |-> query.is_running, process_id |-> current_process]
\* What the answer is to be, for a handle and the state of the processes.
Status(cp, rt) ==
    [is_running |-> cp # None /\ rt[cp] = "alive", process_id |-> cp]

\* C24: the dictionary get_execution_status returns is the status of the
\* executor: is_running true exactly for a tracked process that has not
\* exited, process_id its pid or None, at the moment of the return or at the
\* moment the query looked at the process.
C24_StatusIsState ==
    [][StatusReturns
       => \/ Answer = Status(current_process, root)
          \/ current_process = query.seen]_vars

\* C25: where the resource limits cannot be applied, the stage process is
\* started all the same: the Popen call of a request on a platform without
\* the resource module gives a process.
C25_RunsWithoutLimits ==
    [][\A t \in Execs :
          (Leaves(t, "spawn") /\ platform = "nt")
          => pc'[t] = "communicate" /\ current_process' # None]_vars

\* The steps in which thread t assigns self.current_process: the Popen call
\* (line 180), the finally clause that ends _run_with_limits (line 206) and
\* the last statement of stop_execution (line 231).
WritesHandle(t) ==
    \/ Leaves(t, "spawn")
    \/ Leaves(t, "communicate") /\ pc'[t] # "wait"
    \/ Leaves(t, "wait")
    \/ Leaves(t, "s_clear")

\* C26: every assignment of the handle is made by the thread that holds the
\* execution lock, the assignment in a stop_execution called by the Stop
\* button included.
C26_HandleWrittenUnderLock ==
    [][\A t \in Threads : WritesHandle(t) => execution_lock = t]_vars

\* A step in which request t starts a stage process, and one in which the
\* stage in progress of request t ends.
Starts(t) == Leaves(t, "spawn") /\ pc'[t] = "communicate"
StageOver(t) == pc[t] \in {"communicate", "wait"} /\ pc'[t] \notin {"communicate", "wait"}

\* C27: a python or javascript request has exactly one stage, started with a
\* timeout of 10 seconds, and returns when it ends.  A java or cpp request
\* starts its compile stage first, with a timeout of 30 seconds, and starts
\* its run stage, with a timeout of 10 seconds, only when the compile stage
\* has been started, its process has terminated and the handle is cleared;
\* it returns when the run stage ends.
C27_StageOrder ==
    [][\A t \in Execs :
         LET l == language[t]
         IN  /\ (Starts(t) /\ l \in {"python", "javascript"}) =>
                    stage[t] = 1 /\ popens = 0 /\ timeout' = 10
             /\ (Starts(t) /\ l \in {"java", "cpp"}) =>
                    \/ stage[t] = 1 /\ popens = 0 /\ timeout' = 30
                    \/ /\ stage[t] = 2 /\ popens = 1 /\ timeout' = 10
                       /\ compile_result[t] # "none"
                       /\ current_process = None
                       /\ NSpawned > 0 /\ root[NSpawned] # "alive"
             /\ (StageOver(t) /\ l \in {"python", "javascript"}) => Returns(t)
             /\ (StageOver(t) /\ l \in {"java", "cpp"} /\ stage[t] = 2) =>
                    Returns(t)]_vars
\* The run stage of a cpp request is in progress, after its compile stage.
C27_Witness ==
    \E t \in Execs :
        /\ language[t] = "cpp" /\ stage[t] = 2 /\ pc[t] = "wait"
        /\ timeout = 10 /\ popens = 2
        /\ proc[t] # None /\ root[proc[t]] = "alive"

\* C28: within one call of execute_code each stage is started at most once:
\* the Popen call of the s-th stage is the s-th Popen call of the request,
\* there are no more Popen calls than the language has stages, and a stage
\* that has ended is followed by the next stage or by the return, never by
\* itself again.
C28_NoRetry ==
    [][\A t \in Execs :
         /\ Leaves(t, "spawn") =>
                /\ popens = stage[t] - 1
                /\ popens' = stage[t]
                /\ popens' <= StagesOf(language[t])
         /\ (StageOver(t) /\ ~Returns(t)) =>
                pc'[t] = "spawn" /\ stage'[t] = stage[t] + 1]_vars
\* A request whose only stage timed out has returned the timeout result
\* after one Popen call.
C28_Witness ==
    \E t \in Execs :
        /\ pc[t] = "idle" /\ result[t] = "timeout" /\ timedout[t]
        /\ popens = 1 /\ execution_lock = Free

\* The compile stage of request t ends with a compiler that exited with
\* return code 0.
CompiledWithExit0(t) ==
    /\ Leaves(t, "wait") /\ ~timedout'[t]
    /\ StagesOf(language[t]) = 2 /\ stage[t] = 1
    /\ current_process # None /\ root[current_process] = "exit0"

\* C29: a compile stage whose process exited with return code 0, whatever it
\* wrote, is never reported as a compilation error: the request goes on to
\* its run stage.
C29_Exit0IsNoCompileError ==
    [][\A t \in Execs :
         CompiledWithExit0(t) =>
             /\ result'[t] # "compile_error"
             /\ pc'[t] = "spawn" /\ stage'[t] = 2]_vars

(***************************************************************************)
(* The order of the checks of is_code_safe                                 *)
(***************************************************************************)

\* The checks in the order size, denylist, imports and includes, residual
\* checks, each stopping at the first failure: the size is the number of
\* bytes of the text, and the import check looks at every module named by
\* the import statement of a python text.
ImportsDangerous(code) ==
    /\ code.stmt.k \in {"import", "from"}
    /\ \E i \in 1..Len(code.stmt.mods) :
          TopLevel(code.stmt.mods[i]) \in Disallowed
SizeFirst(code, lang) ==
    IF Raises(code, lang) THEN FALSE
    ELSE IF ByteSize(code) > MaxSourceLen THEN FALSE
    ELSE IF contains_dangerous_patterns(code.toks, lang) THEN FALSE
    ELSE IF lang = "python" /\ ImportsDangerous(code) THEN FALSE
    ELSE IF lang = "cpp" /\ ~are_imports_safe(code.toks, lang) THEN FALSE
    ELSE CASE lang = "python" -> is_python_safe(code.toks)
           [] lang = "javascript" -> is_javascript_safe(code.toks)
           [] lang = "java" -> is_java_safe(code.toks)
           [] lang = "cpp" -> is_cpp_safe(code.toks)
           [] OTHER -> TRUE

\* C30: for every source text and language, is_code_safe, which tests the
\* denylist, then the imports and includes, then the size, then the residual
\* checks, answers as the checks made in the order size, denylist, imports
\* and includes, residual checks.
C30_SameVerdictInSpecifiedOrder ==
    Answered("is_code_safe") => ret[1] = SizeFirst(call.code, call.language)

(***************************************************************************)
(* Claims about purity, termination and cancellation                       *)
(***************************************************************************)

\* A step in which a call of is_code_safe returns.
PolicyAnswers == call.fn = "is_code_safe" /\ ~Returned /\ Returned'

C33_LiveStageIsTracked ==
    \A t \in Execs :
        (InStage(t) /\ root[StageProcess(t)] = "alive")
        => current_process = StageProcess(t)

\* C34: once a call of stop_execution by the Stop button has returned during
\* a call of execute_code, that call of execute_code starts no further stage
\* process, also when the handle was None at the time of the stop (during
\* the probe of the commands, while the temporary files are written, or
\* between the compile stage and the run stage).
C34_NoStageAfterCancel ==
    [][\A t \in Execs : Starts(t) => ~stopped]_vars

\* C35: when a call of execute_code returns, no stage process that it has
\* started is running: each has exited or has been killed.  (Stage
\* processes are started by the holder of the lock only, so a stage process
\* that runs at a return was started by the call that returns or was left
\* running by an earlier return.)
C35_NoStageProcessLeft ==
    [][\A t \in Execs :
         Returns(t) => \A p \in Pids : root'[p] # "alive"]_vars

\* C36: whenever no call of execute_code is inside its body, the
\* CodeExecutor is idle: self.current_process is None after every return of
\* execute_code, whether it returns a result of a stage, an error, a
\* timeout or a rejection, and whatever calls of stop_execution were made.
C36_IdleHandleIsNone ==
    /\ execution_lock = Free => current_process = None
    /\ \A t \in Execs : pc[t] \in {"idle", "acquire"} => execution_lock # t
\* A request has returned the result of a stage process that ended with a
\* return code other than 0, and nothing is in progress.
C36_Witness ==
    \E t \in Execs :
        /\ pc[t] = "idle" /\ result[t] = "errors"
        /\ execution_lock = Free /\ current_process = None
        /\ \E p \in Pids : root[p] = "dead"

\* C37: a call of get_execution_status made while execute_code and
\* stop_execution run in other threads never raises, and the dictionary it
\* returns never has is_running true together with process_id None.
C37_StatusConsistent ==
    [][/\ ~StatusRaises
       /\ StatusReturns => ~(Answer.is_running /\ Answer.process_id = None)
      ]_vars

\* The results that report a success.
Success == {"ok_noout", "ok_clean", "ok_errword"}

\* C38: a call of execute_code of which a stage process has been killed by
\* stop_execution while it ran never returns a success: not from the stage
\* whose process was killed, and for java and cpp not from the run stage
\* after a kill of the compile stage.
C38_KilledIsNoSuccess ==
    [][\A t \in Execs :
         (Returns(t) /\ killed) => result'[t] \notin Success]_vars

====
